---- MODULE Spec2Model ----
(***************************************************************************)
(* git-helper (bin/git-helper.js): the configuration resolver, the change  *)
(* detector, the commit-message orchestrator and the stage/commit/push     *)
(* pipeline, as state machines over the files and the repository the       *)
(* program reads and writes.                                               *)
(*                                                                         *)
(* Every invocation of the CLI is one process.  The persistent state is    *)
(* the environment variable GROQ_API_KEY, the project config file, the     *)
(* global config file, .gitignore and the git repository.                  *)
(***************************************************************************)
EXTENDS Integers, Sequences, FiniteSets, TLC

VARIABLES
    env,             \* process.env.GROQ_API_KEY (Undefined when unset)
    project,         \* content of CONFIG_FILE (.git-helper-config.json)
    global,          \* content of ~/.git-helper-global.json
    gitignore,       \* content of .gitignore, as far as addToGitignore reads it
    requireDefined,  \* whether the identifier `require` is bound in the module scope
    cmd,             \* the subcommand/option of the last invocation
    arg,             \* its option value
    io,              \* what the file system and git answered during the last step
    out,             \* the lines the invocation logged, as tags
    status,          \* "running", "exit0", "exit1" or "crashed" (uncaught exception)
    shown,           \* what config --show computed and printed
    isRepo,          \* whether the working directory is inside a git repository
    wt,              \* the working tree: staged, unstaged and untracked changes present
    ahead,           \* local commits not yet pushed
    opts,            \* the arguments and options of a push, pull or commit-msg invocation
    pc,              \* the position of the running invocation ("idle" between invocations)
    message,         \* the action's variable message (<<>> when undefined or empty)
    branch,          \* the action's variable branch
    executed,        \* the command lines run through executeCommand, with their results
    printed,         \* the command lines a dry run printed
    request,         \* the request sent to the remote endpoint by the invocation
    cause,           \* the message of the error generateAICommitMessage threw (<<>> if none)
    text             \* the commit message given to sanitizeCommitMessage, and its result

configVars == <<env, project, global, gitignore, requireDefined, cmd, arg, io, out, status, shown>>
repoVars == <<isRepo, wt, ahead>>
runVars == <<opts, pc, message, branch, executed, printed, request, cause>>
vars == <<configVars, repoVars, runVars, text>>

----------------------------------------------------------------------------
(* JavaScript values *)

Undefined == "<undefined>"
Null == "<null>"

\* if (x): undefined, null and the empty string are falsy.
Truthy(v) == v # Undefined /\ v # Null /\ v # ""

(* The credentials the model draws from: the one the environment may hold,  *)
(* the ones the two files may hold at the start, the one config may set.    *)
EnvKey == "gsk_env"
ProjectKey == "gsk_project"
GlobalKey == "gsk_global"
ApiKeys == {"gsk_new"}

AVAILABLE_MODELS ==
    { "llama-3.3-70b-versatile", "llama-3.1-70b-instruct", "llama-3.1-8b-instruct",
      "deepseek-r1-distill-llama-70b", "deepseek-r1-distill-qwen-32b",
      "qwen-2.5-coder-32b", "qwen-2.5-32b", "mixtral-8x7b-32768",
      "llama-3.2-90b-text-preview", "llama-3.2-11b-text-preview",
      "llama-3.2-3b-preview", "llama-3.2-1b-preview", "gemma2-9b-it",
      "qwen-qwq-32b", "llama3-70b-8192", "llama3-8b-8192" }

DEFAULT_MODEL == "llama-3.3-70b-versatile"

(* AVAILABLE_MODELS[name] is a property lookup on an object literal: it is   *)
(* truthy for the listed names and also for the names Object.prototype      *)
(* provides (constructor, toString, ...).                                   *)
ObjectPrototypeNames == {"constructor", "toString", "valueOf", "hasOwnProperty"}
IsAvailable(name) == name \in AVAILABLE_MODELS \cup ObjectPrototypeNames

(* The model names the files may hold at the start: a listed one that is    *)
(* not the default, and an unlisted one.  The names config may be asked to  *)
(* set: the default, an unlisted one, an unlisted one Object.prototype      *)
(* provides.                                                                *)
FileModelNames == {"llama3-8b-8192", "gpt-unlisted"}
ModelNames == {DEFAULT_MODEL, "gpt-unlisted", "constructor"}

(* A parsed JSON object: the two keys the program uses and one it does not.  *)
(* A key that is absent has the value Undefined.                             *)
EmptyObject == [groqApiKey |-> Undefined, model |-> Undefined, extra |-> Undefined]

ObjectsWith(key, extras) ==
    [groqApiKey : {Undefined, key},
     model : {Undefined} \cup FileModelNames,
     extra : {Undefined} \cup extras]

(* A file: absent; present but unreadable (readFileSync throws); present     *)
(* with text JSON.parse rejects; the JSON text null; a JSON object.          *)
FileOf(kind, obj) == [kind |-> kind, obj |-> obj]
AbsentFile == FileOf("absent", EmptyObject)
ObjectFile(obj) == FileOf("object", obj)

FilesWith(key, extras) ==
    {FileOf(k, EmptyObject) : k \in {"absent", "unreadable", "corrupt", "null"}}
        \cup {ObjectFile(o) : o \in ObjectsWith(key, extras)}

\* existsSync(path)
existsSync(f) == f.kind # "absent"

(* JSON.parse(readFileSync(path, "utf8")) of an existing file: throws for an *)
(* unreadable file and for text that is not JSON; null for the text null.    *)
ParseFile(f) ==
    [threw |-> f.kind \in {"unreadable", "corrupt"},
     isNull |-> f.kind = "null",
     obj |-> IF f.kind = "object" THEN f.obj ELSE EmptyObject]

----------------------------------------------------------------------------
(* Configuration resolver *)

\* loadConfig(): the parsed project file, {} when absent, {} and a warning when it throws.
loadConfig(p) ==
    LET r == ParseFile(p)
    IN  IF ~existsSync(p) THEN [isNull |-> FALSE, obj |-> EmptyObject, out |-> <<>>]
        ELSE IF r.threw THEN [isNull |-> FALSE, obj |-> EmptyObject, out |-> <<"warn-load">>]
        ELSE [isNull |-> r.isNull, obj |-> r.obj, out |-> <<>>]

(* addToGitignore(): appends the config file name to .gitignore unless it is *)
(* listed; every failure is logged and swallowed.  gi is "absent",           *)
(* "unreadable", "other" (text without the name) or "listed".                *)
addToGitignore(gi, giOk) ==
    IF gi = "unreadable" THEN [gitignore |-> gi, out |-> <<"gitignore-failed">>]
    ELSE IF gi = "listed" THEN [gitignore |-> gi, out |-> <<>>]
    ELSE IF giOk THEN [gitignore |-> "listed", out |-> <<"gitignore-added">>]
    ELSE [gitignore |-> gi, out |-> <<"gitignore-failed">>]

(* saveConfig(config): writes the project file, then addToGitignore; a       *)
(* failed write is logged and false is returned.                             *)
saveConfig(config, p, gi, writeOk, giOk) ==
    IF writeOk
    THEN LET g == addToGitignore(gi, giOk)
         IN  [ok |-> TRUE, project |-> ObjectFile(config), gitignore |-> g.gitignore,
              out |-> g.out]
    ELSE [ok |-> FALSE, project |-> p, gitignore |-> gi, out |-> <<"save-failed">>]

(* The expression every reader of the global file uses inside its try block: *)
(*   resolve(require("os").homedir(), ".git-helper-global.json")             *)
(*   existsSync(path) ? JSON.parse(readFileSync(path, "utf8")) : {}          *)
(* It throws a ReferenceError when `require` is not bound.                   *)
readGlobalConfig(g, req) ==
    LET r == ParseFile(g)
    IN  IF ~req THEN [threw |-> TRUE, isNull |-> FALSE, obj |-> EmptyObject]
        ELSE IF ~existsSync(g) THEN [threw |-> FALSE, isNull |-> FALSE, obj |-> EmptyObject]
        ELSE r

(* getGroqApiKey(): environment, then project file, then global file, then   *)
(* null.  A null project config makes config.groqApiKey throw a TypeError    *)
(* outside any try; every error of the global lookup is swallowed.           *)
getGroqApiKey(e, p, g, req) ==
    LET config == loadConfig(p)
        globalConfig == readGlobalConfig(g, req)
    IN  IF Truthy(e) THEN [threw |-> FALSE, value |-> e, out |-> <<>>]
        ELSE IF config.isNull THEN [threw |-> TRUE, value |-> Undefined, out |-> config.out]
        ELSE IF Truthy(config.obj.groqApiKey)
             THEN [threw |-> FALSE, value |-> config.obj.groqApiKey, out |-> config.out]
        ELSE IF ~globalConfig.threw /\ ~globalConfig.isNull
                  /\ Truthy(globalConfig.obj.groqApiKey)
             THEN [threw |-> FALSE, value |-> globalConfig.obj.groqApiKey, out |-> config.out]
        ELSE [threw |-> FALSE, value |-> Null, out |-> config.out]

\* getSelectedModel(): project model if available, else global model if available, else default.
getSelectedModel(p, g, req) ==
    LET config == loadConfig(p)
        globalConfig == readGlobalConfig(g, req)
    IN  IF config.isNull THEN [threw |-> TRUE, value |-> Undefined, out |-> config.out]
        ELSE IF Truthy(config.obj.model) /\ IsAvailable(config.obj.model)
             THEN [threw |-> FALSE, value |-> config.obj.model, out |-> config.out]
        ELSE IF ~globalConfig.threw /\ ~globalConfig.isNull
                  /\ Truthy(globalConfig.obj.model) /\ IsAvailable(globalConfig.obj.model)
             THEN [threw |-> FALSE, value |-> globalConfig.obj.model, out |-> config.out]
        ELSE [threw |-> FALSE, value |-> DEFAULT_MODEL, out |-> config.out]

----------------------------------------------------------------------------
(* The config command.  One option per invocation; the action's if/else     *)
(* chain takes the first option present.  Each operator below gives the     *)
(* outcome of one branch: the files after it, the lines it logged and how   *)
(* the process ended.                                                       *)

(* What the environment answered during a step: whether the config file     *)
(* could be written, whether .gitignore could, whether the git queries      *)
(* of the step ran without error.                                           *)
NoIO == [writeOk |-> TRUE, giOk |-> TRUE, gitOk |-> TRUE]
IOs == [writeOk : BOOLEAN, giOk : BOOLEAN, gitOk : {TRUE}]
\* The answers that matter when .gitignore is not written.
WriteIOs == {i \in IOs : i.giOk}

NothingShown ==
    [currentKey |-> Undefined, currentModel |-> Undefined,
     projectKey |-> Undefined, projectModel |-> Undefined,
     globalKey |-> Undefined, globalModel |-> Undefined, envKey |-> Undefined]

Outcome(p, g, gi, o, st, sh) ==
    [project |-> p, global |-> g, gitignore |-> gi, out |-> o, status |-> st, shown |-> sh]

\* An uncaught exception: node prints it and the process ends with a non-zero status.
Crashed(p, g, gi, o) == Outcome(p, g, gi, o, "crashed", NothingShown)

\* The branch ran to its end and the process ends normally.
Returned(p, g, gi, o) == Outcome(p, g, gi, o, "exit0", NothingShown)

\* The last two branches of --set-model and --set-key: loadConfig, assign, saveConfig.
SetProject(field, value, p, g, gi, i, savedTag) ==
    LET config == loadConfig(p)
        next == IF field = "model" THEN [config.obj EXCEPT !.model = value]
                ELSE [config.obj EXCEPT !.groqApiKey = value]
        saved == saveConfig(next, p, gi, i.writeOk, i.giOk)
    IN  IF config.isNull THEN Crashed(p, g, gi, config.out)
        ELSE Returned(saved.project, g, saved.gitignore,
                      config.out \o saved.out \o (IF saved.ok THEN <<savedTag>> ELSE <<>>))

\* The try blocks of --set-global-model and --set-global-key.
SetGlobal(field, value, p, g, gi, req, i, savedTag, failedTag) ==
    LET globalConfig == readGlobalConfig(g, req)
        next == IF field = "model" THEN [globalConfig.obj EXCEPT !.model = value]
                ELSE [globalConfig.obj EXCEPT !.groqApiKey = value]
    IN  IF globalConfig.threw \/ globalConfig.isNull \/ ~i.writeOk
        THEN Returned(p, g, gi, <<failedTag>>)
        ELSE Returned(p, ObjectFile(next), gi, <<savedTag>>)

setModel(m, p, g, gi, i) ==
    IF ~IsAvailable(m) THEN Returned(p, g, gi, <<"invalid-model">>)
    ELSE SetProject("model", m, p, g, gi, i, "model-updated")

setGlobalModel(m, p, g, gi, req, i) ==
    IF ~IsAvailable(m) THEN Returned(p, g, gi, <<"invalid-model">>)
    ELSE SetGlobal("model", m, p, g, gi, req, i, "global-model-updated", "global-model-failed")

setKey(k, p, g, gi, i) == SetProject("groqApiKey", k, p, g, gi, i, "key-saved")

setGlobalKey(k, p, g, gi, req, i) ==
    SetGlobal("groqApiKey", k, p, g, gi, req, i, "global-key-saved", "global-config-failed")

(* --show: loadConfig, getGroqApiKey and getSelectedModel run before the     *)
(* first line is printed; the global settings are read inside a try whose    *)
(* catch prints "Not set" twice.                                             *)
show(e, p, g, gi, req) ==
    LET config == loadConfig(p)
        currentKey == getGroqApiKey(e, p, g, req)
        currentModel == getSelectedModel(p, g, req)
        globalConfig == readGlobalConfig(g, req)
        globalOk == ~globalConfig.threw /\ ~globalConfig.isNull
        orNotSet(v) == IF Truthy(v) THEN v ELSE Undefined
    IN  IF currentKey.threw THEN Crashed(p, g, gi, config.out \o currentKey.out)
        ELSE IF currentModel.threw
             THEN Crashed(p, g, gi, config.out \o currentKey.out \o currentModel.out)
        ELSE Outcome(p, g, gi,
                     config.out \o currentKey.out \o currentModel.out \o <<"configuration">>,
                     "exit0",
                     [currentKey |-> currentKey.value,
                      currentModel |-> currentModel.value,
                      projectKey |-> orNotSet(config.obj.groqApiKey),
                      projectModel |-> orNotSet(config.obj.model),
                      globalKey |-> IF globalOk THEN orNotSet(globalConfig.obj.groqApiKey)
                                    ELSE Undefined,
                      globalModel |-> IF globalOk THEN orNotSet(globalConfig.obj.model)
                                      ELSE Undefined,
                      envKey |-> orNotSet(e)])

\* --reset: writes {} over an existing project file.
reset(p, g, gi, i) ==
    IF ~existsSync(p) THEN Returned(p, g, gi, <<"no-project-config">>)
    ELSE IF i.writeOk THEN Returned(ObjectFile(EmptyObject), g, gi, <<"project-reset">>)
    ELSE Returned(p, g, gi, <<"reset-failed">>)

\* --reset-global: the same for the global file, all of it inside a try.
resetGlobal(p, g, gi, req, i) ==
    IF ~req THEN Returned(p, g, gi, <<"reset-global-failed">>)
    ELSE IF ~existsSync(g) THEN Returned(p, g, gi, <<"no-global-config">>)
    ELSE IF i.writeOk THEN Returned(p, ObjectFile(EmptyObject), gi, <<"global-reset">>)
    ELSE Returned(p, g, gi, <<"reset-global-failed">>)

(* The action of the config command: the if/else chain over the options.    *)
config(c, a, e, p, g, gi, req, i) ==
    CASE c = "list-models" -> Returned(p, g, gi, <<"models">>)
      [] c = "set-model" -> setModel(a, p, g, gi, i)
      [] c = "set-global-model" -> setGlobalModel(a, p, g, gi, req, i)
      [] c = "set-key" -> setKey(a, p, g, gi, i)
      [] c = "set-global-key" -> setGlobalKey(a, p, g, gi, req, i)
      [] c = "show" -> show(e, p, g, gi, req)
      [] c = "reset" -> reset(p, g, gi, i)
      [] c = "reset-global" -> resetGlobal(p, g, gi, req, i)
      [] OTHER -> Returned(p, g, gi, <<"usage">>)

----------------------------------------------------------------------------
(* Shell command lines.  A line is a sequence of pieces: the fixed parts of *)
(* the template literal as one piece each, the interpolated text character  *)
(* by character.                                                            *)

\* The characters the code and the shell treat specially; any other stands for itself.
DQ == "<double-quote>"
BS == "<backslash>"
BT == "<backtick>"
DOLLAR == "<dollar>"

\* String.prototype.replace(/c/g, backslash + c): a backslash in front of every occurrence of c.
RECURSIVE EscapeAll(_, _)
EscapeAll(s, c) ==
    IF s = <<>> THEN <<>>
    ELSE (IF Head(s) = c THEN <<BS, c>> ELSE <<Head(s)>>) \o EscapeAll(Tail(s), c)

\* sanitizeCommitMessage(message): three replace passes, for DQ, BT and DOLLAR.
sanitizeCommitMessage(m) == EscapeAll(EscapeAll(EscapeAll(m, DQ), BT), DOLLAR)

\* The three command lines of the push action's pipeline.
GitAddLine == <<"git add .">>
GitCommitLine(sanitizedMessage) == <<"git commit -m ", DQ>> \o sanitizedMessage \o <<DQ>>
GitPushLine(b) == <<"git push origin ", b>>
GitPullLine(b) == <<"git pull origin ", b>>

\* The three lines the dry run logs, each indented by two spaces.
DryRunLines(sanitizedMessage, b) ==
    << <<"  ", "git add .">>,
       <<"  ", "git commit -m ", DQ>> \o sanitizedMessage \o <<DQ>>,
       <<"  ", "git push origin ", b>> >>

----------------------------------------------------------------------------
(* Repository queries and the commit-message orchestrator *)

\* No request was sent.
NoRequest == [sent |-> FALSE, apiKey |-> Undefined, model |-> Undefined,
              diff |-> "none", status |-> "none"]

WorkTrees == [staged : BOOLEAN, unstaged : BOOLEAN, untracked : BOOLEAN]

\* The output of a git query is non-empty.
StatusPorcelain(w) == w.staged \/ w.unstaged \/ w.untracked
DiffCached(w) == w.staged
DiffUnstaged(w) == w.unstaged
LsFilesOthers(w) == w.untracked

\* isGitRepository(): git rev-parse --git-dir succeeds.
isGitRepository(repo) == repo

\* hasChangesToCommit(): git status --porcelain prints something; false when it fails.
hasChangesToCommit(w, statusOk) == statusOk /\ StatusPorcelain(w)

(* What the remote endpoint may answer: a completion with content, one      *)
(* without, an error carrying error.type, any other failure of the call.    *)
RemoteOutcomes ==
    {"content", "empty", "invalid_request_error", "authentication_error",
     "rate_limit_error", "api_error", "other"}

\* The trimmed content of a completion; error.error.message; error.message.
AiContent == <<"f", "i", "x", DQ>>
ApiErrorMessage == "<error.error.message>"
ErrorMessage == "<error.message>"

\* A thrown error: error.error?.type and the message.
Threw(type, msg) ==
    [threw |-> TRUE, type |-> type, msg |-> msg, request |-> NoRequest, content |-> <<>>]

\* generateTry without the look at the untracked files.
generateTry_NoUntrackedCheck(apiKey, w, p, g, req, gitOk, remote) ==
    LET staged == DiffCached(w)
        source == IF staged THEN "staged" ELSE "unstaged"
        selectedModel == getSelectedModel(p, g, req)
        sent == [sent |-> TRUE, apiKey |-> apiKey, model |-> selectedModel.value,
                 diff |-> source, status |-> source]
    IN  IF ~gitOk THEN Threw("none", ErrorMessage)
        ELSE IF ~StatusPorcelain(w) THEN Threw("none", "No changes found in repository")
        ELSE IF ~staged /\ ~DiffUnstaged(w) THEN Threw("none", "No changes found to analyze")
        ELSE IF selectedModel.threw THEN Threw("none", ErrorMessage)
        ELSE IF remote = "content"
             THEN [threw |-> FALSE, type |-> "none", msg |-> "", request |-> sent,
                   content |-> AiContent]
        ELSE IF remote = "empty"
             THEN [Threw("none", "No response from AI model") EXCEPT !.request = sent]
        ELSE IF remote = "other" THEN [Threw("none", ErrorMessage) EXCEPT !.request = sent]
        ELSE [Threw(remote, ApiErrorMessage) EXCEPT !.request = sent]

\* generateTry without the second reading of the status (git diff --name-status).
generateTry_StatusNotReread(apiKey, w, p, g, req, gitOk, remote) ==
    LET staged == DiffCached(w)
        diffFrom == IF staged THEN "staged" ELSE "unstaged"
        statusFrom == "staged"
        selectedModel == getSelectedModel(p, g, req)
        sent == [sent |-> TRUE, apiKey |-> apiKey, model |-> selectedModel.value,
                 diff |-> diffFrom, status |-> statusFrom]
    IN  IF ~gitOk THEN Threw("none", ErrorMessage)
        ELSE IF ~StatusPorcelain(w) THEN Threw("none", "No changes found in repository")
        ELSE IF ~staged /\ ~DiffUnstaged(w)
             THEN IF LsFilesOthers(w)
                  THEN Threw("none", "Found untracked files. Please stage your changes first with 'git add .'")
                  ELSE Threw("none", "No changes found to analyze")
        ELSE IF selectedModel.threw THEN Threw("none", ErrorMessage)
        ELSE IF remote = "content"
             THEN [threw |-> FALSE, type |-> "none", msg |-> "", request |-> sent,
                   content |-> AiContent]
        ELSE IF remote = "empty"
             THEN [Threw("none", "No response from AI model") EXCEPT !.request = sent]
        ELSE IF remote = "other" THEN [Threw("none", ErrorMessage) EXCEPT !.request = sent]
        ELSE [Threw(remote, ApiErrorMessage) EXCEPT !.request = sent]

(* The try block of generateAICommitMessage up to the answer of the remote  *)
(* endpoint: the error it throws, or the request it sends.  diffFrom and    *)
(* statusFrom name the git query whose output the variables diff and status *)
(* hold when the request is built: the one with --cached ("staged") or the  *)
(* one without ("unstaged").                                                *)
generateTry(apiKey, w, p, g, req, gitOk, remote) ==
    LET staged == DiffCached(w)
        diffFrom == IF staged THEN "staged" ELSE "unstaged"
        statusFrom == IF staged THEN "staged" ELSE "unstaged"
        selectedModel == getSelectedModel(p, g, req)
        sent == [sent |-> TRUE, apiKey |-> apiKey, model |-> selectedModel.value,
                 diff |-> diffFrom, status |-> statusFrom]
    IN  IF ~gitOk THEN Threw("none", ErrorMessage)
        ELSE IF ~StatusPorcelain(w) THEN Threw("none", "No changes found in repository")
        ELSE IF ~staged /\ ~DiffUnstaged(w)
             THEN IF LsFilesOthers(w)
                  THEN Threw("none", "Found untracked files. Please stage your changes first with 'git add .'")
                  ELSE Threw("none", "No changes found to analyze")
        ELSE IF selectedModel.threw THEN Threw("none", ErrorMessage)
        ELSE IF remote = "content"
             THEN [threw |-> FALSE, type |-> "none", msg |-> "", request |-> sent,
                   content |-> AiContent]
        ELSE IF remote = "empty"
             THEN [Threw("none", "No response from AI model") EXCEPT !.request = sent]
        ELSE IF remote = "other" THEN [Threw("none", ErrorMessage) EXCEPT !.request = sent]
        ELSE [Threw(remote, ApiErrorMessage) EXCEPT !.request = sent]

(* generateAICommitMessage(apiKey): the message, or the error its catch     *)
(* block throws: its message as the text before the colon and the rest.    *)
generateAICommitMessage(apiKey, w, p, g, req, gitOk, remote) ==
    LET r == generateTry(apiKey, w, p, g, req, gitOk, remote)
        thrown ==
            IF r.type = "invalid_request_error" THEN <<"Invalid request: ", r.msg>>
            ELSE IF r.type = "authentication_error"
                 THEN <<"Authentication failed: ", "Check your API key">>
            ELSE IF r.type = "rate_limit_error"
                 THEN <<"Rate limit exceeded: ", "Please try again later">>
            ELSE IF r.type = "api_error" THEN <<"Groq API error: ", r.msg>>
            ELSE <<"AI generation failed: ", r.msg>>
    IN  [ok |-> ~r.threw,
         message |-> r.content,
         cause |-> IF r.threw THEN thrown ELSE <<>>,
         request |-> r.request]

----------------------------------------------------------------------------
(* State between invocations *)

NoOpts == [message |-> <<>>, branch |-> Undefined, ai |-> FALSE, dryRun |-> FALSE,
           staged |-> FALSE]
NoText == [message |-> <<>>, sanitized |-> <<>>, line |-> <<>>, done |-> FALSE]

RunIdle ==
    /\ opts = NoOpts
    /\ pc = "idle"
    /\ message = <<>>
    /\ branch = Undefined
    /\ executed = <<>>
    /\ printed = <<>>
    /\ request = NoRequest
    /\ cause = <<>>

NothingRun ==
    /\ cmd = "none"
    /\ arg = Undefined
    /\ io = NoIO
    /\ out = <<>>
    /\ status = "exit0"
    /\ shown = NothingShown

----------------------------------------------------------------------------
(* The configuration resolver on its own: every content of the two config   *)
(* files and of the environment variable, and the config command's options. *)

InitConfig ==
    /\ env \in {Undefined, EnvKey}
    /\ project \in FilesWith(ProjectKey, {"x"})
    /\ global \in FilesWith(GlobalKey, {})
    /\ gitignore = "absent"
    /\ requireDefined \in BOOLEAN
    /\ NothingRun
    /\ isRepo = TRUE
    /\ wt = [staged |-> FALSE, unstaged |-> FALSE, untracked |-> FALSE]
    /\ ahead = 0
    /\ RunIdle
    /\ text = NoText

\* One invocation of config with option c and value a; i is what the file system answers.
ConfigRun(c, a, i) ==
    LET r == config(c, a, env, project, global, gitignore, requireDefined, i)
    IN  /\ cmd' = c
        /\ arg' = a
        /\ io' = i
        /\ project' = r.project
        /\ global' = r.global
        /\ gitignore' = r.gitignore
        /\ out' = r.out
        /\ status' = r.status
        /\ shown' = r.shown
        /\ UNCHANGED <<env, requireDefined, repoVars, runVars, text>>

ConfigListModels == ConfigRun("list-models", Undefined, NoIO)

ConfigSetModel == \E m \in ModelNames, i \in IOs : ConfigRun("set-model", m, i)

ConfigSetGlobalModel == \E m \in ModelNames, i \in WriteIOs : ConfigRun("set-global-model", m, i)

ConfigSetKey == \E k \in ApiKeys, i \in IOs : ConfigRun("set-key", k, i)

ConfigSetGlobalKey == \E k \in ApiKeys, i \in WriteIOs : ConfigRun("set-global-key", k, i)

ConfigShow == ConfigRun("show", Undefined, NoIO)

ConfigReset == \E i \in WriteIOs : ConfigRun("reset", Undefined, i)

ConfigResetGlobal == \E i \in WriteIOs : ConfigRun("reset-global", Undefined, i)

\* No option given (an empty option value is falsy too): the usage hint.
ConfigNoOption == ConfigRun("no-option", Undefined, NoIO)

NextConfig ==
    \/ ConfigListModels
    \/ ConfigSetModel
    \/ ConfigSetGlobalModel
    \/ ConfigSetKey
    \/ ConfigSetGlobalKey
    \/ ConfigShow
    \/ ConfigReset
    \/ ConfigResetGlobal
    \/ ConfigNoOption

SpecConfig == InitConfig /\ [][NextConfig]_vars

----------------------------------------------------------------------------
(* The push, pull and commit-msg commands over a repository *)

\* A bound on the local commits not yet pushed.
MaxAhead == 2

\* The commit messages given on the command line: none, and one with a quote in it.
PushMessages == {<<>>, <<"m", DQ>>}

PushOpts ==
    [message : PushMessages, branch : {Undefined, "feat"}, ai : BOOLEAN, dryRun : BOOLEAN,
     staged : {FALSE}]

(* What git branch --show-current answers, when it is asked: a branch name, *)
(* or a failure.                                                            *)
BranchAnswers(b) == IF Truthy(b) THEN {"<not asked>"} ELSE {"dev", "<failed>"}

\* let branch = options.branch; if (!branch) { try the current branch, catch: "main" }
branchOf(o, answer) ==
    IF Truthy(o.branch) THEN o.branch
    ELSE IF answer = "<failed>" THEN "main"
    ELSE answer

\* executeCommand(command): runs the line; git says whether it succeeded.
executeCommand(line, ok) == [line |-> line, success |-> ok]

\* What the repository is after a git command that succeeded.
AfterAdd(w) == [staged |-> StatusPorcelain(w), unstaged |-> FALSE, untracked |-> FALSE]
AfterCommit(w) == [w EXCEPT !.staged = FALSE]

(* The values a step of an invocation leaves in the run variables.          *)
Step(nextPc, m, b, pr, rq, ca, o, st) ==
    [pc |-> nextPc, message |-> m, branch |-> b, printed |-> pr, request |-> rq,
     cause |-> ca, out |-> o, status |-> st]

Assign(r) ==
    /\ pc' = r.pc
    /\ message' = r.message
    /\ branch' = r.branch
    /\ printed' = r.printed
    /\ request' = r.request
    /\ cause' = r.cause
    /\ out' = r.out
    /\ status' = r.status

\* withMessage with the dry run printing the message as given, not sanitized.
withMessage_DryRunUnsanitized(m, b, dryRun, rq, ca, o) ==
    IF m = <<>> THEN Step("idle", m, b, <<>>, rq, ca, o \o <<"message-required">>, "exit1")
    ELSE IF dryRun
         THEN Step("idle", m, b, DryRunLines(m, b), rq, ca, o \o <<"dry-run">>, "exit0")
    ELSE Step("add", m, b, <<>>, rq, ca, o, "running")

(* The push action from "if (!message)" on: the message check, the          *)
(* sanitizing, and the dry run; otherwise the pipeline starts.              *)
withMessage(m, b, dryRun, rq, ca, o) ==
    IF m = <<>> THEN Step("idle", m, b, <<>>, rq, ca, o \o <<"message-required">>, "exit1")
    ELSE IF dryRun
         THEN Step("idle", m, b, DryRunLines(sanitizeCommitMessage(m), b), rq, ca,
                   o \o <<"dry-run">>, "exit0")
    ELSE Step("add", m, b, <<>>, rq, ca, o, "running")

\* pushEntry without the change detector's gate.
pushEntry_NoGate(o, repo, w, statusOk, answer, e, p, g, req) ==
    LET b == branchOf(o, answer)
        apiKey == getGroqApiKey(e, p, g, req)
    IN  IF ~isGitRepository(repo)
        THEN Step("idle", <<>>, Undefined, <<>>, NoRequest, <<>>, <<"not-a-repository">>, "exit1")
        ELSE IF o.ai /\ o.message = <<>>
        THEN IF apiKey.threw
             THEN Step("idle", <<>>, b, <<>>, NoRequest, <<>>, apiKey.out, "crashed")
             ELSE IF ~Truthy(apiKey.value)
             THEN Step("idle", <<>>, b, <<>>, NoRequest, <<>>,
                       apiKey.out \o <<"key-not-found">>, "exit1")
             ELSE Step("generate", <<>>, b, <<>>, [NoRequest EXCEPT !.apiKey = apiKey.value],
                       <<>>, apiKey.out, "running")
        ELSE withMessage(o.message, b, o.dryRun, NoRequest, <<>>, <<>>)

(* The push action up to the call of generateAICommitMessage.               *)
pushEntry(o, repo, w, statusOk, answer, e, p, g, req) ==
    LET b == branchOf(o, answer)
        apiKey == getGroqApiKey(e, p, g, req)
    IN  IF ~isGitRepository(repo)
        THEN Step("idle", <<>>, Undefined, <<>>, NoRequest, <<>>, <<"not-a-repository">>, "exit1")
        ELSE IF ~hasChangesToCommit(w, statusOk)
        THEN Step("idle", <<>>, Undefined, <<>>, NoRequest, <<>>, <<"no-changes">>, "exit0")
        ELSE IF o.ai /\ o.message = <<>>
        THEN IF apiKey.threw
             THEN Step("idle", <<>>, b, <<>>, NoRequest, <<>>, apiKey.out, "crashed")
             ELSE IF ~Truthy(apiKey.value)
             THEN Step("idle", <<>>, b, <<>>, NoRequest, <<>>,
                       apiKey.out \o <<"key-not-found">>, "exit1")
             ELSE Step("generate", <<>>, b, <<>>, [NoRequest EXCEPT !.apiKey = apiKey.value],
                       <<>>, apiKey.out, "running")
        ELSE withMessage(o.message, b, o.dryRun, NoRequest, <<>>, <<>>)

\* pushGenerated returning after a failed generation instead of exiting with status 1.
pushGenerated_ReturnsOnFailure(r, b, dryRun, o) ==
    IF r.ok THEN withMessage(r.message, b, dryRun, r.request, r.cause, o \o <<"ai-generated">>)
    ELSE Step("idle", <<>>, b, <<>>, r.request, r.cause,
              o \o <<"Failed to generate AI message", "Please provide a manual commit message">>,
              "exit0")

(* The push action after generateAICommitMessage settled with result r.     *)
pushGenerated(r, b, dryRun, o) ==
    IF r.ok THEN withMessage(r.message, b, dryRun, r.request, r.cause, o \o <<"ai-generated">>)
    ELSE Step("idle", <<>>, b, <<>>, r.request, r.cause,
              o \o <<"Failed to generate AI message", "Please provide a manual commit message">>,
              "exit1")

\* A new process starts: push [message] [-b branch] [--ai] [--dry-run].
PushBegin ==
    /\ pc = "idle"
    /\ \E o \in PushOpts, statusOk \in BOOLEAN :
        \E answer \in BranchAnswers(o.branch) :
          /\ cmd' = "push"
          /\ opts' = o
          /\ executed' = <<>>
          /\ io' = [NoIO EXCEPT !.gitOk = statusOk]
          /\ Assign(pushEntry(o, isRepo, wt, statusOk, answer, env, project, global,
                              requireDefined))
    /\ arg' = Undefined
    /\ shown' = NothingShown
    /\ UNCHANGED <<env, project, global, gitignore, requireDefined, repoVars, text>>

\* await generateAICommitMessage(apiKey) in the push action.
PushGenerate ==
    /\ pc = "generate"
    /\ cmd = "push"
    /\ \E gitOk \in BOOLEAN, remote \in RemoteOutcomes :
          /\ io' = [NoIO EXCEPT !.gitOk = gitOk]
          /\ Assign(pushGenerated(
                 generateAICommitMessage(request.apiKey, wt, project, global, requireDefined,
                                         gitOk, remote),
                 branch, opts.dryRun, out))
    /\ UNCHANGED <<env, project, global, gitignore, requireDefined, cmd, arg, shown,
                   repoVars, opts, executed, text>>

\* Pipeline without the return after a failed command.
Pipeline_NoReturnOnFailure(line, ok, nextWt, nextAhead, nextPc, failedTag, doneTag) ==
    /\ executed' = Append(executed, executeCommand(line, ok))
    /\ wt' = IF ok THEN nextWt ELSE wt
    /\ ahead' = IF ok THEN nextAhead ELSE ahead
    /\ pc' = nextPc
    /\ status' = IF nextPc # "idle" THEN "running" ELSE "exit0"
    /\ out' = IF ~ok THEN out \o <<failedTag>>
              ELSE IF nextPc = "idle" THEN out \o <<doneTag>> ELSE out
    /\ UNCHANGED <<env, project, global, gitignore, requireDefined, cmd, arg, io, shown,
                   isRepo, opts, message, branch, printed, request, cause, text>>

\* One step of the pipeline: the command line run, what it did to the repository.
Pipeline(line, ok, nextWt, nextAhead, nextPc, failedTag, doneTag) ==
    /\ executed' = Append(executed, executeCommand(line, ok))
    /\ wt' = IF ok THEN nextWt ELSE wt
    /\ ahead' = IF ok THEN nextAhead ELSE ahead
    /\ pc' = IF ok THEN nextPc ELSE "idle"
    /\ status' = IF ok /\ nextPc # "idle" THEN "running" ELSE "exit0"
    /\ out' = IF ~ok THEN out \o <<failedTag>>
              ELSE IF nextPc = "idle" THEN out \o <<doneTag>> ELSE out
    /\ UNCHANGED <<env, project, global, gitignore, requireDefined, cmd, arg, io, shown,
                   isRepo, opts, message, branch, printed, request, cause, text>>

\* git add .
PushStage ==
    /\ pc = "add"
    /\ \E ok \in BOOLEAN :
          Pipeline(GitAddLine, ok, AfterAdd(wt), ahead, "commit", "Failed to stage", "")

\* git commit -m "<sanitized message>": fails when nothing is staged.
PushCommit ==
    /\ pc = "commit"
    /\ \E ok \in BOOLEAN :
          /\ ok => (wt.staged /\ ahead < MaxAhead)
          /\ Pipeline(GitCommitLine(sanitizeCommitMessage(message)), ok, AfterCommit(wt),
                      ahead + 1, "push", "Failed to commit", "")

\* git push origin <branch>
PushPush ==
    /\ pc = "push"
    /\ \E ok \in BOOLEAN :
          Pipeline(GitPushLine(branch), ok, wt, 0, "idle", "Failed to push",
                   "Changes pushed successfully!")

\* A new process: pull [-b branch].  The whole action is synchronous.
Pull ==
    /\ pc = "idle"
    /\ \E b \in {Undefined, "feat"}, ok \in BOOLEAN :
        \E answer \in BranchAnswers(b) :
          LET o == [NoOpts EXCEPT !.branch = b]
              to == branchOf(o, answer)
          IN  /\ opts' = o
              /\ IF ~isGitRepository(isRepo)
                 THEN /\ executed' = <<>>
                      /\ Assign(Step("idle", <<>>, Undefined, <<>>, NoRequest, <<>>,
                                      <<"not-a-repository">>, "exit1"))
                 ELSE /\ executed' = <<executeCommand(GitPullLine(to), ok)>>
                      /\ Assign(Step("idle", <<>>, to, <<>>, NoRequest, <<>>,
                                      IF ok THEN <<"Changes pulled successfully!">>
                                      ELSE <<"Failed to pull">>,
                                      "exit0"))
    /\ cmd' = "pull"
    /\ arg' = Undefined
    /\ io' = NoIO
    /\ shown' = NothingShown
    /\ UNCHANGED <<env, project, global, gitignore, requireDefined, repoVars, text>>

(* The commit-msg action up to the call of generateAICommitMessage.         *)
commitMsgEntry(repo, w, statusOk, e, p, g, req) ==
    LET apiKey == getGroqApiKey(e, p, g, req)
    IN  IF ~isGitRepository(repo)
        THEN Step("idle", <<>>, Undefined, <<>>, NoRequest, <<>>, <<"not-a-repository">>, "exit1")
        ELSE IF ~hasChangesToCommit(w, statusOk)
        THEN Step("idle", <<>>, Undefined, <<>>, NoRequest, <<>>,
                  <<"No changes found to analyze", "Make some changes to your files first">>,
                  "exit0")
        ELSE IF apiKey.threw
        THEN Step("idle", <<>>, Undefined, <<>>, NoRequest, <<>>, apiKey.out, "crashed")
        ELSE IF ~Truthy(apiKey.value)
        THEN Step("idle", <<>>, Undefined, <<>>, NoRequest, <<>>,
                  apiKey.out \o <<"key-not-found">>, "exit1")
        ELSE Step("generate", <<>>, Undefined, <<>>, [NoRequest EXCEPT !.apiKey = apiKey.value],
                  <<>>, apiKey.out, "running")

(* The commit-msg action after generateAICommitMessage settled: the         *)
(* message, or the error's message and a hint.                              *)
commitMsgGenerated(r, o) ==
    IF r.ok
    THEN Step("idle", r.message, Undefined, <<>>, r.request, r.cause,
              o \o <<"Generated commit message:">>, "exit0")
    ELSE Step("idle", <<>>, Undefined, <<>>, r.request, r.cause,
              o \o <<"Failed to generate message: ">> \o r.cause
                \o (IF r.cause[2] = "Found untracked files. Please stage your changes first with 'git add .'"
                    THEN <<"Try: git add .">>
                    ELSE IF r.cause[2] \in {"No changes found in repository",
                                            "No changes found to analyze"}
                    THEN <<"Make some changes to your files first">>
                    ELSE <<>>),
              "exit0")

\* A new process: commit-msg [--staged].
CommitMsgBegin ==
    /\ pc = "idle"
    /\ \E staged \in BOOLEAN, statusOk \in BOOLEAN :
          /\ opts' = [NoOpts EXCEPT !.staged = staged]
          /\ io' = [NoIO EXCEPT !.gitOk = statusOk]
          /\ Assign(commitMsgEntry(isRepo, wt, statusOk, env, project, global, requireDefined))
    /\ cmd' = "commit-msg"
    /\ executed' = <<>>
    /\ arg' = Undefined
    /\ shown' = NothingShown
    /\ UNCHANGED <<env, project, global, gitignore, requireDefined, repoVars, text>>

\* await generateAICommitMessage(apiKey) in the commit-msg action.
CommitMsgGenerate ==
    /\ pc = "generate"
    /\ cmd = "commit-msg"
    /\ \E gitOk \in BOOLEAN, remote \in RemoteOutcomes :
          /\ io' = [NoIO EXCEPT !.gitOk = gitOk]
          /\ Assign(commitMsgGenerated(
                 generateAICommitMessage(request.apiKey, wt, project, global, requireDefined,
                                         gitOk, remote),
                 out))
    /\ UNCHANGED <<env, project, global, gitignore, requireDefined, cmd, arg, shown,
                   repoVars, opts, executed, text>>

\* Somebody else (an editor, another git command) changes the working tree.
WorkTreeChange ==
    /\ \E w \in WorkTrees : w # wt /\ wt' = w
    /\ UNCHANGED <<configVars, isRepo, ahead, runVars, text>>

InitPush ==
    /\ env \in {Undefined, EnvKey}
    /\ project \in {AbsentFile, FileOf("null", EmptyObject)}
    /\ global = AbsentFile
    /\ gitignore = "absent"
    /\ requireDefined \in BOOLEAN
    /\ NothingRun
    /\ isRepo \in BOOLEAN
    /\ wt \in WorkTrees
    /\ ahead = 0
    /\ RunIdle
    /\ text = NoText

NextPush ==
    \/ PushBegin
    \/ PushGenerate
    \/ PushStage
    \/ PushCommit
    \/ PushPush
    \/ Pull
    \/ CommitMsgBegin
    \/ CommitMsgGenerate
    \/ WorkTreeChange

SpecPush == InitPush /\ [][NextPush]_vars

----------------------------------------------------------------------------
(* sanitizeCommitMessage on its own: every message up to MaxLen characters  *)
(* over the characters the shell treats specially and one it does not.      *)

MaxLen == 3

Chars == {DQ, BS, BT, DOLLAR, "a"}

Messages == UNION {[1..n -> Chars] : n \in 0..MaxLen}

InitSanitize ==
    /\ env = Undefined
    /\ project = AbsentFile
    /\ global = AbsentFile
    /\ gitignore = "absent"
    /\ requireDefined \in BOOLEAN
    /\ NothingRun
    /\ isRepo = TRUE
    /\ wt = [staged |-> TRUE, unstaged |-> FALSE, untracked |-> FALSE]
    /\ ahead = 0
    /\ RunIdle
    /\ text \in {[NoText EXCEPT !.message = m] : m \in Messages}

\* const sanitizedMessage = sanitizeCommitMessage(message), and the commit command line.
Sanitize ==
    /\ ~text.done
    /\ text' = [message |-> text.message,
                sanitized |-> sanitizeCommitMessage(text.message),
                line |-> GitCommitLine(sanitizeCommitMessage(text.message)),
                done |-> TRUE]
    /\ UNCHANGED <<configVars, repoVars, runVars>>

NextSanitize == Sanitize

SpecSanitize == InitSanitize /\ [][NextSanitize]_vars

(* CLAIMS *)
----------------------------------------------------------------------------
(* Configuration resolver: C1 - C4 (checked under SpecConfig) *)

\* The credential a file holds: Undefined unless it is an object with a non-empty groqApiKey.
CredentialOf(f) ==
    IF f.kind = "object" /\ Truthy(f.obj.groqApiKey) THEN f.obj.groqApiKey ELSE Undefined

\* The first credential present in the order environment, project file, global file.
FirstCredential(e, p, g) ==
    IF Truthy(e) THEN e
    ELSE IF Truthy(CredentialOf(p)) THEN CredentialOf(p)
    ELSE IF Truthy(CredentialOf(g)) THEN CredentialOf(g)
    ELSE Null

(* C1: for every combination of environment variable, project credential    *)
(* and global credential, the credential getGroqApiKey returns (computed    *)
(* by config --show as the key in use) is the first one present in the      *)
(* order environment, project file, global file, and null when none is.     *)
C1_CredentialOrder ==
    cmd = "show" =>
        /\ status = "exit0"
        /\ shown.currentKey = FirstCredential(env, project, global)

(* C2: with no environment override, after config --set-key K or            *)
(* config --set-global-key K ran (the file system accepting the write),     *)
(* the credential the next config --show finds in use is K.                 *)
C2_SetThenShow ==
    [][ ( /\ cmd \in {"set-key", "set-global-key"}
          /\ io.writeOk
          /\ ~Truthy(env)
          /\ cmd' = "show" )
        => (status' = "exit0" /\ shown'.currentKey = arg) ]_vars

\* The object a set operation merges into: the file's object, {} when it has none.
ObjectIn(f) == IF f.kind = "object" THEN f.obj ELSE EmptyObject

(* C3: every set operation (a model name being one config accepts, the      *)
(* file system accepting the write) writes its file, creating it if absent, *)
(* with the set key at the new value and every other key at its previous    *)
(* value, and leaves the other config file unchanged.                       *)
C3_MergeOnWrite ==
    [][ /\ (cmd' = "set-key" /\ io'.writeOk)
            => /\ project' = ObjectFile([ObjectIn(project) EXCEPT !.groqApiKey = arg'])
               /\ global' = global
        /\ (cmd' = "set-model" /\ io'.writeOk /\ IsAvailable(arg'))
            => /\ project' = ObjectFile([ObjectIn(project) EXCEPT !.model = arg'])
               /\ global' = global
        /\ (cmd' = "set-global-key" /\ io'.writeOk)
            => /\ global' = ObjectFile([ObjectIn(global) EXCEPT !.groqApiKey = arg'])
               /\ project' = project
        /\ (cmd' = "set-global-model" /\ io'.writeOk /\ IsAvailable(arg'))
            => /\ global' = ObjectFile([ObjectIn(global) EXCEPT !.model = arg'])
               /\ project' = project ]_vars

\* A corrupt or unreadable file read as the empty record.
AsEmptyRecord(f) ==
    IF f.kind \in {"corrupt", "unreadable"} THEN ObjectFile(EmptyObject) ELSE f

\* The lines that report a failed write.
WriteFailureTags ==
    {"save-failed", "global-model-failed", "global-config-failed", "reset-failed",
     "reset-global-failed"}

\* Whether the invocation reaches a write of a config file.
AttemptsWrite(c, a, p, g) ==
    \/ c \in {"set-key", "set-global-key"}
    \/ c \in {"set-model", "set-global-model"} /\ IsAvailable(a)
    \/ c = "reset" /\ existsSync(p)
    \/ c = "reset-global" /\ existsSync(g)

----------------------------------------------------------------------------
(* Operation executor: C5 - C7 *)

\* The pipeline of a push with this message and branch, as the action builds its lines.
Plan(m, b) == <<GitAddLine, GitCommitLine(sanitizeCommitMessage(m)), GitPushLine(b)>>

\* What the action reports when the k-th step fails.
FailureReport == <<"Failed to stage", "Failed to commit", "Failed to push">>

\* A step of the tool, as opposed to a change somebody else makes to the working tree.
ToolStep == runVars' # runVars \/ configVars' # configVars

\* The position of a push invocation that has run exactly n commands, all successful.
PcAfter(n) == IF n = 0 THEN "add" ELSE IF n = 1 THEN "commit" ELSE IF n = 2 THEN "push" ELSE "idle"

C5_Order ==
    cmd = "push" =>
        /\ Len(executed) <= 3
        /\ \A k \in 1..Len(executed) :
              /\ executed[k].line = Plan(message, branch)[k]
              /\ k < Len(executed) => executed[k].success
        /\ pc \in {"add", "commit", "push"} =>
              /\ pc = PcAfter(Len(executed))
              /\ \A k \in 1..Len(executed) : executed[k].success
        /\ (executed # <<>> /\ ~executed[Len(executed)].success) =>
              /\ pc = "idle"
              /\ status = "exit0"
              /\ out[Len(out)] = FailureReport[Len(executed)]

C5_NoRollback ==
    (ToolStep /\ cmd' = "push" /\ Len(executed') = Len(executed) + 1) =>
        LET done == executed'[Len(executed')]
        IN  /\ ~done.success => (wt' = wt /\ ahead' = ahead)
            /\ (done.success /\ Len(executed') = 1) => wt' = AfterAdd(wt)
            /\ (done.success /\ Len(executed') = 2) => (wt' = AfterCommit(wt) /\ ahead' = ahead + 1)
            /\ (done.success /\ Len(executed') = 3) => (wt' = wt /\ ahead' = 0)

(* C5: the push pipeline runs git add, git commit, git push in that order,  *)
(* each at most once; a command runs only after the one before it           *)
(* succeeded; when one fails the invocation ends there, reports that step,  *)
(* and the failing step changes nothing in the repository, so what the      *)
(* earlier steps did stays.                                                 *)
C5_PipelineHaltsWithoutRollback == []C5_Order /\ [][C5_NoRollback]_vars

\* A commit failed after the staging succeeded, and the staging is still there.
C5_Witness ==
    /\ cmd = "push"
    /\ Len(executed) = 2
    /\ executed[1].success
    /\ ~executed[2].success
    /\ pc = "idle"
    /\ wt.staged

\* A printed line without its indentation.
Unindented(line) == Tail(line)

C6_PrintsThePlan ==
    (cmd = "push" /\ opts.dryRun) =>
        /\ executed = <<>>
        /\ pc \in {"idle", "generate"}
        /\ (pc = "idle" /\ message # <<>>) =>
              /\ Len(printed) = 3
              /\ \A k \in 1..3 : Unindented(printed[k]) = Plan(message, branch)[k]
              /\ \A k \in 1..3 : printed[k][1] = "  "

C6_RunsThePlan ==
    (cmd = "push" /\ ~opts.dryRun) =>
        /\ printed = <<>>
        /\ \A k \in 1..Len(executed) : executed[k].line = Plan(message, branch)[k]
        /\ (pc = "idle" /\ executed # <<>> /\ executed[Len(executed)].success)
              => Len(executed) = 3

C6_NoMutation ==
    (ToolStep /\ cmd' = "push" /\ opts'.dryRun) =>
        UNCHANGED <<wt, ahead, project, global, gitignore>>

(* C6: a dry run of push, with or without --ai, executes none of git add,   *)
(* git commit, git push, changes neither the repository nor any file, and   *)
(* prints exactly the three command lines, in order and with the same       *)
(* sanitized message and branch, that an invocation without --dry-run and   *)
(* with the same message and branch executes.                               *)
C6_DryRun == [](C6_PrintsThePlan /\ C6_RunsThePlan) /\ [][C6_NoMutation]_vars

\* A dry run with a generated message has printed its three lines.
C6_Witness ==
    /\ cmd = "push"
    /\ opts.dryRun
    /\ opts.ai
    /\ request.sent
    /\ Len(printed) = 3

(* How a POSIX shell reads a double-quoted argument: inside the quotes a    *)
(* backslash escapes the next character when that is $, `, " or \, and the  *)
(* first double quote not escaped closes the argument.  The position of the *)
(* closing quote of the argument that opens at position open; 0 when the    *)
(* argument is never closed.                                                *)
RECURSIVE ScanQuoted(_, _)
ScanQuoted(line, i) ==
    IF i > Len(line) THEN 0
    ELSE IF line[i] = DQ THEN i
    ELSE IF line[i] = BS /\ i < Len(line) /\ line[i + 1] \in {DOLLAR, BT, DQ, BS}
         THEN ScanQuoted(line, i + 2)
    ELSE ScanQuoted(line, i + 1)

ClosingQuote(line, open) == ScanQuoted(line, open + 1)

(* C7: for every commit message, no double quote of the                     *)
(* git commit -m "..." line built from the sanitized message closes the     *)
(* quoted argument before the line's final quote.                           *)
C7_NoQuoteClosesEarly ==
    text.done => ~(0 < ClosingQuote(text.line, 2) /\ ClosingQuote(text.line, 2) < Len(text.line))

----------------------------------------------------------------------------
(* Commit-message orchestrator and exit status: C8 - C10 *)

NothingToAnalyze == <<"AI generation failed: ", "No changes found in repository">>
StageFirst ==
    <<"AI generation failed: ",
      "Found untracked files. Please stage your changes first with 'git add .'">>

\* The step in which generateAICommitMessage settles.
GenerationStep == pc = "generate" /\ pc' # "generate"

(* C8: when git reports no staged, no unstaged and no untracked change,     *)
(* generateAICommitMessage fails with the cause "No changes found in        *)
(* repository"; when it reports untracked files only, with the cause        *)
(* "Found untracked files. Please stage ..."; the two differ, and in        *)
(* neither case is a request sent.                                          *)
C8_NothingVersusStageFirst ==
    [][ (GenerationStep /\ io'.gitOk) =>
          /\ ~StatusPorcelain(wt)
                => (cause' = NothingToAnalyze /\ ~request'.sent /\ cause' # StageFirst)
          /\ (wt.untracked /\ ~wt.staged /\ ~wt.unstaged)
                => (cause' = StageFirst /\ ~request'.sent /\ cause' # NothingToAnalyze) ]_vars

\* generateAICommitMessage was called in a repository that had just become clean.
C8_Witness ==
    /\ cause = NothingToAnalyze
    /\ pc = "idle"
    /\ ~request.sent

\* The invocation printed the cause: its two parts follow each other in the output.
CausePrinted ==
    \E k \in 1..(Len(out) - 1) : out[k] = cause[1] /\ out[k + 1] = cause[2]

\* The kinds of failure of the remote call, and the cause each is thrown with.
FailureKinds ==
    {"invalid_request_error", "authentication_error", "rate_limit_error", "api_error", "other"}

CauseOf(kind) ==
    generateAICommitMessage(EnvKey, [staged |-> TRUE, unstaged |-> FALSE, untracked |-> FALSE],
                            AbsentFile, AbsentFile, TRUE, TRUE, kind).cause

(* C9: every failure of message generation reaches the user with its        *)
(* cause: the five kinds of failure have five different cause strings, and  *)
(* push --ai and commit-msg both print the cause of the failure.            *)
C9_CauseIsPrinted ==
    /\ \A k1, k2 \in FailureKinds : k1 # k2 => CauseOf(k1)[1] # CauseOf(k2)[1]
    /\ (pc = "idle" /\ cmd \in {"push", "commit-msg"} /\ cause # <<>>) => CausePrinted

\* The change detector of the invocation reported changes.
ChangesDetected ==
    isRepo /\ (out = <<>> \/ out[1] \notin {"no-changes", "No changes found to analyze"})

\* What getGroqApiKey answers in this state.
Credential == getGroqApiKey(env, project, global, requireDefined)

\* push needs a credential when it is to generate the message.
NeedsCredential ==
    cmd = "commit-msg" \/ (cmd = "push" /\ opts.ai /\ opts.message = <<>>)

(* C10 as stated: the exit status is non-zero when the repository context   *)
(* is missing, when push has no commit message (none given and none         *)
(* generated), or when the credential a generation needs is missing, and    *)
(* zero in every other outcome.                                             *)
C10_AsStated ==
    (pc = "idle" /\ cmd \in {"push", "pull", "commit-msg"}) =>
        ( status # "exit0" <=>
            \/ ~isRepo
            \/ cmd = "push" /\ message = <<>>
            \/ NeedsCredential /\ ~Credential.threw /\ ~Truthy(Credential.value) )

(* C10 amended: the exit status is non-zero when the repository context is  *)
(* missing, or when, the change detector having reported changes, push      *)
(* ends with no commit message (none given and none generated) or           *)
(* commit-msg gets no credential (none found, or the lookup throws); it is  *)
(* zero in every other outcome, among them a push or commit-msg that finds  *)
(* no changes.                                                              *)
C10_ExitStatus ==
    (pc = "idle" /\ cmd \in {"push", "pull", "commit-msg"}) =>
        ( status # "exit0" <=>
            \/ ~isRepo
            \/ cmd = "push" /\ ChangesDetected /\ message = <<>>
            \/ cmd = "commit-msg" /\ ChangesDetected
                  /\ (Credential.threw \/ ~Truthy(Credential.value)) )

\* A push without a message in a clean repository ended with status zero.
C10_Witness ==
    /\ pc = "idle"
    /\ cmd = "push"
    /\ isRepo
    /\ opts.message = <<>>
    /\ ~opts.ai
    /\ out = <<"no-changes">>
    /\ status = "exit0"

----------------------------------------------------------------------------
(* What is analysed, and the gate before it: C11 - C13 *)

(* C11: when commit-msg is run with --staged, the diff and the status of    *)
(* the request sent to the remote endpoint come from the staged state;      *)
(* unstaged changes are never used as a fallback.                           *)
C11_StagedOnly ==
    (cmd = "commit-msg" /\ opts.staged /\ request.sent) =>
        (request.diff = "staged" /\ request.status = "staged")

\* A push or commit-msg process starts: the step that runs the change detector.
InvocationBegins ==
    /\ pc = "idle"
    /\ cmd' \in {"push", "commit-msg"}
    /\ ~UNCHANGED <<configVars, runVars>>

\* The detector answers false: git status prints nothing, or fails.
DetectorSaysNo == ~StatusPorcelain(wt) \/ ~io'.gitOk

\* What the gate printed when it ended an invocation.
GateReports == {"no-changes", "No changes found to analyze"}

C12_GateStep ==
    InvocationBegins =>
        /\ UNCHANGED <<env, project, global, gitignore, repoVars>>
        /\ DetectorSaysNo =>
              (pc' = "idle" /\ executed' = <<>> /\ ~request'.sent)

C12_GatedInvocation ==
    (cmd \in {"push", "commit-msg"} /\ out # <<>> /\ out[1] \in GateReports) =>
        (pc = "idle" /\ executed = <<>> /\ ~request.sent)

(* C12: the change detector is a gate.  A push that starts in a working     *)
(* tree without staged, unstaged or untracked modification, or whose status *)
(* query fails, ends at once: no git add, commit or push is executed and no *)
(* request is sent; a commit-msg under the same condition sends no request; *)
(* the step that runs the detector changes neither the repository nor the   *)
(* config files.                                                            *)
C12_DetectorIsAGate == []C12_GatedInvocation /\ [][C12_GateStep]_vars

\* A push with a message, not a dry run, was stopped by the gate in a clean tree.
C12_Witness ==
    /\ pc = "idle"
    /\ cmd = "push"
    /\ isRepo
    /\ io.gitOk
    /\ ~StatusPorcelain(wt)
    /\ opts.message # <<>>
    /\ ~opts.dryRun
    /\ out = <<"no-changes">>
    /\ executed = <<>>

(* C13: message generation prefers staged content.  When the staged diff is *)
(* not empty the request carries the staged diff and the staged status;     *)
(* only when it is empty does the request carry the unstaged diff and the   *)
(* unstaged status, and then the unstaged diff is not empty; the diff and   *)
(* the status of one request always come from the same source.              *)
C13_StagedPreferred ==
    [][ (GenerationStep /\ request'.sent) =>
          /\ DiffCached(wt) => (request'.diff = "staged" /\ request'.status = "staged")
          /\ ~DiffCached(wt) =>
                (DiffUnstaged(wt) /\ request'.diff = "unstaged" /\ request'.status = "unstaged")
          /\ request'.diff = request'.status ]_vars

\* A request was built from the unstaged changes of a tree with nothing staged.
C13_Witness ==
    /\ pc \in {"idle", "add"}
    /\ request.sent
    /\ ~wt.staged
    /\ wt.unstaged
    /\ request.diff = "unstaged"
    /\ request.status = "unstaged"

----------------------------------------------------------------------------
(* The effective model: C14 (checked under SpecConfig) *)

\* The model a file holds: Undefined unless it is an object whose model is a listed one.
ListedModelOf(f) ==
    IF f.kind = "object" /\ Truthy(f.obj.model) /\ f.obj.model \in AVAILABLE_MODELS
    THEN f.obj.model
    ELSE Undefined

\* The project value if valid, else the global value if valid, else the default.
EffectiveModel(p, g) ==
    IF Truthy(ListedModelOf(p)) THEN ListedModelOf(p)
    ELSE IF Truthy(ListedModelOf(g)) THEN ListedModelOf(g)
    ELSE DEFAULT_MODEL

\* What getSelectedModel answers in this state.
SelectedModel == getSelectedModel(project, global, requireDefined)

C14_AlwaysListed ==
    /\ ~SelectedModel.threw
    /\ SelectedModel.value \in AVAILABLE_MODELS
    /\ SelectedModel.value = EffectiveModel(project, global)

C14_UnlistedRejected ==
    (cmd' \in {"set-model", "set-global-model"} /\ arg' \notin AVAILABLE_MODELS) =>
        (out' = <<"invalid-model">> /\ project' = project /\ global' = global)

(* C14: after any sequence of config operations and for any content of the  *)
(* config files, the model getSelectedModel returns is one of the listed    *)
(* models: the project file's if listed, else the global file's if listed,  *)
(* else the default; and --set-model and --set-global-model with a name     *)
(* that is not listed are rejected and leave both config files unchanged.   *)
C14_EffectiveModelIsListed == []C14_AlwaysListed /\ [][C14_UnlistedRejected]_vars

====
